---- MODULE Spec2Model ----
(***************************************************************************)
(* Model of the stm32f0 CRC test: the software reference CRC engine, the   *)
(* register programming of the hardware CRC unit, and the test runner      *)
(* that compares the two over the configuration matrix.                    *)
(*                                                                         *)
(* A u32 is held as its two halfwords <<hi, lo>>, each in 0..65535, so     *)
(* that every 32-bit value is representable; u8 and u16 values are         *)
(* naturals.                                                               *)
(***************************************************************************)
EXTENDS Naturals, Sequences, FiniteSets

(***************************************************************************)
(* Machine words                                                           *)
(***************************************************************************)
\* the u32 whose upper halfword is hi and lower halfword is lo
U32(hi, lo) == <<hi, lo>>

\* `n as u32` for a u8 or u16 n: zero extension
AsU32(n) == U32(0, n)

\* `v as u16`: the low 16 bits of v
AsU16(v) == v[2]

\* `v as u8`: the low 8 bits of v
AsU8(v) == v[2] % 256

\* the u16 and the u32 values
Half == 0..65535
Word == Half \X Half

\* & on the low w bits of two naturals, w a power of two: the & of their upper
\* halves above the & of their lower halves
RECURSIVE AndBits(_, _, _)
AndBits(a, b, w) ==
    IF a = 0 \/ b = 0 THEN 0
    ELSE IF w = 1 THEN 1
    ELSE LET h == 2^(w \div 2)
         IN  h * AndBits(a \div h, b \div h, w \div 2) + AndBits(a % h, b % h, w \div 2)

\* & on halfwords
And16 == [a \in Half, b \in Half |-> AndBits(a, b, 16)]

\* | and ^ on halfwords, from a + b = (a | b) + (a & b) = (a ^ b) + 2 * (a & b)
Or16  == [a \in Half, b \in Half |-> (a + b) - And16[a, b]]
Xor16 == [a \in Half, b \in Half |-> (a + b) - 2 * And16[a, b]]

\* u32 operators &, |, ^, >> and << (shift counts 0..31; bits shifted out are lost)
And == [a \in Word, b \in Word |-> <<And16[a[1], b[1]], And16[a[2], b[2]]>>]
Or  == [a \in Word, b \in Word |-> <<Or16[a[1], b[1]], Or16[a[2], b[2]]>>]
Xor == [a \in Word, b \in Word |-> <<Xor16[a[1], b[1]], Xor16[a[2], b[2]]>>]
Shr ==
    [v \in Word, n \in 0..31 |->
        IF n >= 16 THEN <<0, v[1] \div 2^(n - 16)>>
        ELSE <<v[1] \div 2^n, (v[2] \div 2^n) + (v[1] % 2^n) * 2^(16 - n)>>]
Shl ==
    [v \in Word, n \in 0..31 |->
        IF n >= 16 THEN <<(v[2] * 2^(n - 16)) % 65536, 0>>
        ELSE <<((v[1] * 2^n) % 65536) + (v[2] \div 2^(16 - n)), (v[2] * 2^n) % 65536>>]

(***************************************************************************)
(* software::reflect8 / reflect16 / reflect32                              *)
(***************************************************************************)
\* reflect8 with the mask of the nibble swap left off the shifted-down half
reflect8_noNibbleMask ==
    [v \in Word |->
        LET v1 == Or[And[Shr[v, 1], U32(\h5555, \h5555)], Shl[And[v, U32(\h5555, \h5555)], 1]]
            v2 == Or[And[Shr[v1, 2], U32(\h3333, \h3333)], Shl[And[v1, U32(\h3333, \h3333)], 2]]
            v3 == Or[Shr[v2, 4], Shl[And[v2, U32(\h0F0F, \h0F0F)], 4]]
        IN  v3]

\* fn reflect8(mut v: u32) -> u32: reverse the bits of each byte
reflect8 ==
    [v \in Word |->
        LET v1 == Or[And[Shr[v, 1], U32(\h5555, \h5555)], Shl[And[v, U32(\h5555, \h5555)], 1]]
            v2 == Or[And[Shr[v1, 2], U32(\h3333, \h3333)], Shl[And[v1, U32(\h3333, \h3333)], 2]]
            v3 == Or[And[Shr[v2, 4], U32(\h0F0F, \h0F0F)], Shl[And[v2, U32(\h0F0F, \h0F0F)], 4]]
        IN  v3]

\* fn reflect16(mut v: u32) -> u32: reverse the bits of each 16-bit chunk
reflect16 ==
    [v \in Word |->
        LET v1 == reflect8[v]
            v2 == Or[And[Shr[v1, 8], U32(\h00FF, \h00FF)], Shl[And[v1, U32(\h00FF, \h00FF)], 8]]
        IN  v2]

\* fn reflect32(mut v: u32) -> u32: reverse all bits
reflect32 ==
    [v \in Word |->
        LET v1 == reflect16[v]
            v2 == Or[Shr[v1, 16], Shl[v1, 16]]
        IN  v2]

(***************************************************************************)
(* Polynomial, BitReversal, Step, CrcConfig, CrcCalculation                *)
(***************************************************************************)
\* enum Polynomial { Crc7(u8), Crc8(u8), Crc16(u16), Crc32(u32) }
Crc7(n)  == [tag |-> "Crc7", v8 |-> n]
Crc8(n)  == [tag |-> "Crc8", v8 |-> n]
Crc16(n) == [tag |-> "Crc16", v16 |-> n]
Crc32(w) == [tag |-> "Crc32", v32 |-> w]

\* enum BitReversal, in declaration order (the order BitReversal::iter() yields)
BitReversal == <<"Disabled", "By8Bits", "By16Bits", "By32Bits">>

\* enum Step { Data8(u8), Data16(u16), Data32(u32) }
Data8(n)  == [tag |-> "Data8", v8 |-> n]
Data16(n) == [tag |-> "Data16", v16 |-> n]
Data32(w) == [tag |-> "Data32", v32 |-> w]

\* Polynomial::poly_size
poly_size(self) ==
    CASE self.tag = "Crc7"  -> "POLYSIZE7"
      [] self.tag = "Crc8"  -> "POLYSIZE8"
      [] self.tag = "Crc16" -> "POLYSIZE16"
      [] self.tag = "Crc32" -> "POLYSIZE32"

\* bits with the Crc16 arm returning 8
bits_Crc16As8(self) ==
    CASE self.tag = "Crc7"  -> 7
      [] self.tag = "Crc8"  -> 8
      [] self.tag = "Crc16" -> 8
      [] self.tag = "Crc32" -> 32

\* Polynomial::bits
bits(self) ==
    CASE self.tag = "Crc7"  -> 7
      [] self.tag = "Crc8"  -> 8
      [] self.tag = "Crc16" -> 16
      [] self.tag = "Crc32" -> 32

\* Polynomial::value
value(self) ==
    CASE self.tag \in {"Crc7", "Crc8"} -> AsU32(self.v8)
      [] self.tag = "Crc16"            -> AsU32(self.v16)
      [] self.tag = "Crc32"            -> self.v32

\* reflect_output with the Crc16 arm reflecting by byte
reflect_output_Crc16ByByte(self, output) ==
    CASE self.tag = "Crc7"  -> Shr[reflect8[output], 1]
      [] self.tag = "Crc8"  -> reflect8[output]
      [] self.tag = "Crc16" -> reflect8[output]
      [] self.tag = "Crc32" -> reflect32[output]

\* reflect_output with the shift of the Crc7 arm left out
reflect_output_Crc7NoShift(self, output) ==
    CASE self.tag = "Crc7"  -> reflect8[output]
      [] self.tag = "Crc8"  -> reflect8[output]
      [] self.tag = "Crc16" -> reflect16[output]
      [] self.tag = "Crc32" -> reflect32[output]

\* Polynomial::reflect_output
reflect_output(self, output) ==
    CASE self.tag = "Crc7"  -> Shr[reflect8[output], 1]
      [] self.tag = "Crc8"  -> reflect8[output]
      [] self.tag = "Crc16" -> reflect16[output]
      [] self.tag = "Crc32" -> reflect32[output]

\* BitReversal::reflect32 with By16Bits reversing the whole word
BitReversal_reflect32_By16As32(self, v) ==
    CASE self = "Disabled" -> v
      [] self = "By8Bits"  -> reflect8[v]
      [] self = "By16Bits" -> reflect32[v]
      [] self = "By32Bits" -> reflect32[v]

\* BitReversal::reflect32
BitReversal_reflect32(self, v) ==
    CASE self = "Disabled" -> v
      [] self = "By8Bits"  -> reflect8[v]
      [] self = "By16Bits" -> reflect16[v]
      [] self = "By32Bits" -> reflect32[v]

\* BitReversal::reflect16 with By8Bits reversing the whole halfword
BitReversal_reflect16_By8As16(self, v) ==
    CASE self = "Disabled" -> v
      [] self = "By8Bits"  -> AsU16(reflect16[AsU32(v)])
      [] self \in {"By16Bits", "By32Bits"} -> AsU16(reflect16[AsU32(v)])

\* BitReversal::reflect16
BitReversal_reflect16(self, v) ==
    CASE self = "Disabled" -> v
      [] self = "By8Bits"  -> AsU16(reflect8[AsU32(v)])
      [] self \in {"By16Bits", "By32Bits"} -> AsU16(reflect16[AsU32(v)])

\* BitReversal::reflect8
BitReversal_reflect8(self, v) ==
    CASE self = "Disabled" -> v
      [] self \in {"By8Bits", "By16Bits", "By32Bits"} -> AsU8(reflect8[AsU32(v)])

\* u8/u16/u32::to_be_bytes: the bytes of a value, most significant first
to_be_bytes8(n)  == <<n>>
to_be_bytes16(n) == <<n \div 256, n % 256>>
to_be_bytes32(v) == <<v[1] \div 256, v[1] % 256, v[2] \div 256, v[2] % 256>>

(***************************************************************************)
(* The CRC engine run_software drives (crc_any::CRCu32 as called at        *)
(* create_crc / digest / get_crc): the register `sum` is a u32, the        *)
(* generator has `bits` bits, data is consumed most significant bit first, *)
(* and the value read back is the low `bits` bits of the register.         *)
(***************************************************************************)
\* the u32 with the low n bits set
LowMask(n) == IF n >= 16 THEN U32(2^(n - 16) - 1, 65535) ELSE U32(0, 2^n - 1)

\* CRCu32::create_crc(poly, bits, initial, final_xor, reflect = false)
create_crc(poly, nbits, initial, final_xor) ==
    [poly |-> poly, bits |-> nbits, sum |-> initial, final_xor |-> final_xor]

\* one data bit b shifted into the register
DigestBit(crc, b) ==
    LET top     == ((AsU16(Shr[crc.sum, crc.bits - 1]) % 2) + b) % 2
        shifted == Shl[crc.sum, 1]
    IN  [crc EXCEPT !.sum = IF top = 1 THEN Xor[shifted, crc.poly] ELSE shifted]

\* one byte n, from bit 7 down to bit 0: let mut i = 0x80; while i != 0 { ..; i >>= 1 }
DigestByte(crc, n) ==
    LET RECURSIVE loop(_)
        loop(st) == IF st.i = 0 THEN st.crc
                    ELSE loop([crc |-> DigestBit(st.crc, (n \div st.i) % 2),
                               i   |-> st.i \div 2])
    IN  loop([crc |-> crc, i |-> 128])

\* CRCu32::digest(&bytes): for n in data { .. }
digest(crc, bytes) ==
    LET RECURSIVE loop(_)
        loop(st) == IF st.rest = << >> THEN st.crc
                    ELSE loop([crc  |-> DigestByte(st.crc, Head(st.rest)),
                               rest |-> Tail(st.rest)])
    IN  loop([crc |-> crc, rest |-> bytes])

\* CRCu32::get_crc()
get_crc(crc) == And[Xor[crc.sum, crc.final_xor], LowMask(crc.bits)]

(***************************************************************************)
(* CrcCalculation::run_software                                            *)
(***************************************************************************)
\* the argument of crc.digest for one step (the match arms of the step loop)
StepInput(input_reversal, step) ==
    CASE step.tag = "Data8"  -> to_be_bytes8(BitReversal_reflect8(input_reversal, step.v8))
      [] step.tag = "Data16" -> to_be_bytes16(BitReversal_reflect16(input_reversal, step.v16))
      [] step.tag = "Data32" -> to_be_bytes32(BitReversal_reflect32(input_reversal, step.v32))

\* the step loop: every step digested in sequence order
DigestSteps(crc, input_reversal, ss) ==
    LET RECURSIVE loop(_)
        loop(st) == IF st.rest = << >> THEN st.crc
                    ELSE loop([crc  |-> digest(st.crc, StepInput(input_reversal, Head(st.rest))),
                               rest |-> Tail(st.rest)])
    IN  loop([crc |-> crc, rest |-> ss])

\* the bytes handed to crc.digest over the whole step loop, in order
DigestedBytes(input_reversal, steps) ==
    LET RECURSIVE go(_)
        go(j) == IF j > Len(steps) THEN <<>>
                 ELSE StepInput(input_reversal, steps[j]) \o go(j + 1)
    IN  go(1)

\* run_software reflecting the output whatever config.reflect_output says
run_software_AlwaysReflects(self) ==
    LET crc    == create_crc(value(self.config.polynomial), bits(self.config.polynomial),
                             self.config.initial_value, U32(0, 0))
        result == get_crc(DigestSteps(crc, self.config.reflect_input, self.steps))
    IN  reflect_output(self.config.polynomial, result)

\* CrcCalculation::run_software
run_software(self) ==
    LET crc    == create_crc(value(self.config.polynomial), bits(self.config.polynomial),
                             self.config.initial_value, U32(0, 0))
        result == get_crc(DigestSteps(crc, self.config.reflect_input, self.steps))
    IN  IF self.config.reflect_output
        THEN reflect_output(self.config.polynomial, result)
        ELSE result

(***************************************************************************)
(* Test values (main.rs)                                                   *)
(***************************************************************************)
POLYNOMIALS ==
    << Crc7(\h09),
       Crc8(\h07),
       Crc16(\h8005),
       Crc32(U32(\h1EDC, \h6F41)),
       Crc32(U32(\h04C1, \h1DB7)) >>

INITIAL_VALUES ==
    << U32(\h0000, \h0000),
       U32(\hFFFF, \hFFFF),
       U32(\h0000, \h00FF) >>

\* fn steps() -> Vec<Vec<Step>>
steps ==
    << << >>,
       << Data8(\h42) >>,
       << Data16(\h4232) >>,
       << Data8(\h42), Data8(\h32), Data8(\h68), Data8(\hA4) >>,
       << Data16(\h4232), Data16(\h68A4) >>,
       << Data32(U32(\h4232, \h68A4)) >>,
       << Data32(U32(\h4232, \h68A4)), Data32(U32(\hAD91, \hFE38)) >> >>

\* for reflect_output in [false, true]
OutputReflections == <<FALSE, TRUE>>

\* fn to_enabled_disabled
to_enabled_disabled(v) == IF v THEN "Enabled" ELSE "Disabled"

\* impl From<BitReversal> for REV_IN_A
REV_IN_A_from(bit_reversal) ==
    CASE bit_reversal = "Disabled" -> "NORMAL"
      [] bit_reversal = "By8Bits"  -> "BYTE"
      [] bit_reversal = "By16Bits" -> "HALFWORD"
      [] bit_reversal = "By32Bits" -> "WORD"

\* most hardware mismatches explored in one run of the matrix
MaxFailed == 2

(***************************************************************************)
(* State                                                                   *)
(***************************************************************************)
VARIABLES
    pc,               \* position of the single thread of control
    idx,              \* run_tests: loop positions <<polynomial, reflect_input,
                      \*            reflect_output, initial_value, steps>>, 1-based
    passed, failed,   \* run_tests: the counters
    calculation,      \* the CrcCalculation under test
    name,             \* the row label formatted for the calculation
    expected_output,  \* crc_test: result of run_software
    digested,         \* the bytes run_software handed to crc.digest, in order
    ops,              \* the peripheral register accesses of run_hardware, in order
    output,           \* crc_test: result of run_hardware
    pass,             \* crc_test: the returned bool
    serial,           \* the report sink: lines written so far and the last line
    arg, fpoly, res   \* argument, polynomial and results of the bit-reflection functions

vars == <<pc, idx, passed, failed, calculation, name, expected_output, digested,
          ops, output, pass, serial, arg, fpoly, res>>

runnerVars == <<idx, passed, failed>>
testVars   == <<calculation, name, expected_output, digested, ops, output, pass, serial>>
fnVars     == <<arg, fpoly, res>>

(***************************************************************************)
(* crc_test: run_software, then run_hardware, then the report row          *)
(***************************************************************************)
\* let expected_output = calculation.run_software();
RunSoftware ==
    /\ pc = "software"
    /\ expected_output' = run_software(calculation)
    /\ digested' = DigestedBytes(calculation.config.reflect_input, calculation.steps)
    /\ pc' = "hw_init"
    /\ UNCHANGED <<calculation, name, ops, output, pass, serial, runnerVars, fnVars>>

\* run_hardware: crc.init.write(initial_value)
HwWriteInit ==
    /\ pc = "hw_init"
    /\ ops' = Append(ops, [op |-> "write", reg |-> "INIT",
                           bits32 |-> calculation.config.initial_value])
    /\ pc' = "hw_pol"
    /\ UNCHANGED <<calculation, name, expected_output, digested, output, pass, serial,
                   runnerVars, fnVars>>

\* run_hardware: write_volatile(0x40023014, polynomial.value())
HwWritePol ==
    /\ pc = "hw_pol"
    /\ ops' = Append(ops, [op |-> "write", reg |-> "POL",
                           bits32 |-> value(calculation.config.polynomial)])
    /\ pc' = "hw_cr"
    /\ UNCHANGED <<calculation, name, expected_output, digested, output, pass, serial,
                   runnerVars, fnVars>>

\* run_hardware: crc.cr.write(rev_in, rev_out, polysize, reset)
HwWriteCr ==
    /\ pc = "hw_cr"
    /\ ops' = Append(ops,
                 [op |-> "write", reg |-> "CR",
                  fields |-> [rev_in   |-> REV_IN_A_from(calculation.config.reflect_input),
                              rev_out  |-> IF calculation.config.reflect_output
                                           THEN "REVERSED" ELSE "NORMAL",
                              polysize |-> poly_size(calculation.config.polynomial),
                              reset    |-> TRUE]])
    /\ pc' = "hw_data"
    /\ UNCHANGED <<calculation, name, expected_output, digested, output, pass, serial,
                   runnerVars, fnVars>>

\* every step written to the 32-bit port
DataWrite_AllTo32(step) ==
    CASE step.tag = "Data8"  -> [op |-> "write", reg |-> "DR", bits32 |-> AsU32(step.v8)]
      [] step.tag = "Data16" -> [op |-> "write", reg |-> "DR", bits32 |-> AsU32(step.v16)]
      [] step.tag = "Data32" -> [op |-> "write", reg |-> "DR", bits32 |-> step.v32]

\* the write one step makes: its value to dr8(), dr16() or dr()
DataWrite(step) ==
    CASE step.tag = "Data8"  -> [op |-> "write", reg |-> "DR8", bits8 |-> step.v8]
      [] step.tag = "Data16" -> [op |-> "write", reg |-> "DR16", bits16 |-> step.v16]
      [] step.tag = "Data32" -> [op |-> "write", reg |-> "DR", bits32 |-> step.v32]

\* number of steps the loop of run_hardware has already fed
StepsFed == Len(SelectSeq(ops, LAMBDA o : o.op = "write" /\ o.reg \in {"DR8", "DR16", "DR"}))

\* run_hardware: one iteration of `for step in &self.steps`
HwWriteData ==
    /\ pc = "hw_data"
    /\ StepsFed < Len(calculation.steps)
    /\ ops' = Append(ops, DataWrite(calculation.steps[StepsFed + 1]))
    /\ UNCHANGED <<pc, calculation, name, expected_output, digested, output, pass, serial,
                   runnerVars, fnVars>>

\* what crc.dr().read().bits() can return: the peripheral is outside the program,
\* it either agrees with the software reference or it does not
DrValues == {expected_output, Xor[expected_output, U32(0, 1)]}

\* run_hardware: crc.dr().read().bits() after the last step
HwReadDr ==
    /\ pc = "hw_data"
    /\ StepsFed = Len(calculation.steps)
    /\ \E v \in DrValues :
          /\ v # expected_output => failed < MaxFailed
          /\ output' = v
    /\ ops' = Append(ops, [op |-> "read", reg |-> "DR", bits32 |-> output'])
    /\ pc' = "row"
    /\ UNCHANGED <<calculation, name, expected_output, digested, pass, serial,
                   runnerVars, fnVars>>

\* crc_test: the row written to serial and the returned bool
Report ==
    /\ pc = "row"
    /\ serial' = [lines |-> serial.lines + 1,
                  last  |-> [kind |-> "row", name |-> name, output |-> output,
                             result |-> IF output = expected_output
                                        THEN [text |-> "OK"]
                                        ELSE [text |-> "failed - expected",
                                              value |-> expected_output]]]
    /\ pass' = (output = expected_output)
    /\ pc' = "count"
    /\ UNCHANGED <<calculation, name, expected_output, digested, ops, output,
                   runnerVars, fnVars>>

(***************************************************************************)
(* run_tests: header, the five nested loops, the summary                   *)
(***************************************************************************)
\* the loop positions after one more pass of the innermost loop body
Advance(i) ==
    IF i[5] < Len(steps) THEN <<i[1], i[2], i[3], i[4], i[5] + 1>>
    ELSE IF i[4] < Len(INITIAL_VALUES) THEN <<i[1], i[2], i[3], i[4] + 1, 1>>
    ELSE IF i[3] < Len(OutputReflections) THEN <<i[1], i[2], i[3] + 1, 1, 1>>
    ELSE IF i[2] < Len(BitReversal) THEN <<i[1], i[2] + 1, 1, 1, 1>>
    ELSE <<i[1] + 1, 1, 1, 1, 1>>

\* let calculation = CrcCalculation { config: CrcConfig { .. }, steps }
CalculationAt(i) ==
    [config |-> [reflect_input  |-> BitReversal[i[2]],
                 reflect_output |-> OutputReflections[i[3]],
                 initial_value  |-> INITIAL_VALUES[i[4]],
                 polynomial     |-> POLYNOMIALS[i[1]]],
     steps  |-> steps[i[5]]]

\* let name = format!(.., polynomial, polynomial.value(), reflect_input,
\*                    to_enabled_disabled(reflect_output), initial_value, i)
NameOf(c, i) ==
    [type |-> c.config.polynomial.tag, polynomial |-> value(c.config.polynomial),
     input_refl |-> c.config.reflect_input,
     output_refl |-> to_enabled_disabled(c.config.reflect_output),
     init_val |-> c.config.initial_value, test |-> i]

\* serial.write_str(header)
WriteHeader ==
    /\ pc = "header"
    /\ serial' = [lines |-> serial.lines + 1, last |-> [kind |-> "header"]]
    /\ pc' = "loop"
    /\ UNCHANGED <<calculation, name, expected_output, digested, ops, output, pass,
                   runnerVars, fnVars>>

\* loop head with cases left: build the calculation and its name, call crc_test
NextCase ==
    /\ pc = "loop"
    /\ idx[1] <= Len(POLYNOMIALS)
    /\ calculation' = CalculationAt(idx)
    /\ name' = NameOf(CalculationAt(idx), idx[5] - 1)
    /\ ops' = <<>>
    /\ pc' = "software"
    /\ UNCHANGED <<expected_output, digested, output, pass, serial, runnerVars, fnVars>>

\* Count with the two counters swapped
Count_Swapped ==
    /\ pc = "count"
    /\ IF pass THEN failed' = failed + 1 /\ passed' = passed
               ELSE passed' = passed + 1 /\ failed' = failed
    /\ idx' = Advance(idx)
    /\ pc' = "loop"
    /\ UNCHANGED <<testVars, fnVars>>

\* Count leaving the loops at the first failed case
Count_AbortOnFail ==
    /\ pc = "count"
    /\ IF pass THEN passed' = passed + 1 /\ failed' = failed /\ idx' = Advance(idx)
               ELSE failed' = failed + 1 /\ passed' = passed
                    /\ idx' = <<Len(POLYNOMIALS) + 1, 1, 1, 1, 1>>
    /\ pc' = "loop"
    /\ UNCHANGED <<testVars, fnVars>>

\* if pass { passed += 1; } else { failed += 1; }, then on to the next case
Count ==
    /\ pc = "count"
    /\ IF pass THEN passed' = passed + 1 /\ failed' = failed
               ELSE failed' = failed + 1 /\ passed' = passed
    /\ idx' = Advance(idx)
    /\ pc' = "loop"
    /\ UNCHANGED <<testVars, fnVars>>

\* loops exhausted: the summary line
WriteSummary ==
    /\ pc = "loop"
    /\ idx[1] > Len(POLYNOMIALS)
    /\ serial' = [lines |-> serial.lines + 1,
                  last  |-> [kind |-> "summary",
                             result |-> IF failed = 0 THEN "ok" ELSE "FAILED",
                             passed |-> passed, failed |-> failed]]
    /\ pc' = "done"
    /\ UNCHANGED <<calculation, name, expected_output, digested, ops, output, pass,
                   runnerVars, fnVars>>

NoCalculation ==
    [config |-> [reflect_input |-> "Disabled", reflect_output |-> FALSE,
                 initial_value |-> U32(0, 0), polynomial |-> Crc8(0)],
     steps  |-> << >>]

\* state at entry of run_tests
Init ==
    /\ pc = "header"
    /\ idx = <<1, 1, 1, 1, 1>>
    /\ passed = 0
    /\ failed = 0
    /\ calculation = NoCalculation
    /\ name = NameOf(NoCalculation, 0)
    /\ expected_output = U32(0, 0)
    /\ digested = << >>
    /\ ops = << >>
    /\ output = U32(0, 0)
    /\ pass = FALSE
    /\ serial = [lines |-> 0, last |-> [kind |-> "none"]]
    /\ arg = U32(0, 0)
    /\ fpoly = Crc8(0)
    /\ res = << >>

Next ==
    \/ WriteHeader
    \/ NextCase
    \/ RunSoftware
    \/ HwWriteInit
    \/ HwWritePol
    \/ HwWriteCr
    \/ HwWriteData
    \/ HwReadDr
    \/ Report
    \/ Count
    \/ WriteSummary

\* run_tests from entry to the summary line
Spec == Init /\ [][Next]_vars

\* every step of run_tests but the call of run_software
NextButSoftware ==
    \/ WriteHeader
    \/ NextCase
    \/ HwWriteInit
    \/ HwWritePol
    \/ HwWriteCr
    \/ HwWriteData
    \/ HwReadDr
    \/ Report
    \/ Count
    \/ WriteSummary

\* run_tests is straight-line sequential code on one thread: a step that can be
\* taken is taken.  RunSoftware can be taken exactly when pc = "software" and
\* leaves that position, so its weak fairness is stated through its guard.
FairSpec == Spec /\ WF_vars(NextButSoftware) /\ []<>(pc # "software")

(***************************************************************************)
(* crc_test on its own, for calculations beyond the ones run_tests builds  *)
(***************************************************************************)
\* the four bytes of a 32-bit word and its two halfwords
Halves(w) == <<w[1], w[2]>>
Bytes(w)  == to_be_bytes32(w)

SampleWords ==
    { U32(\hAABB, \hCCDD), U32(\h4232, \h68A4), U32(\h8000, \h0001) }

\* step sequences built from one word: empty, one step of each width, the word
\* split into bytes, into halfwords and whole, two words, and mixed widths
SampleSteps(w) ==
    { << >>,
      << Data8(Bytes(w)[1]) >>,
      << Data16(Halves(w)[1]) >>,
      << Data8(Bytes(w)[1]), Data8(Bytes(w)[2]), Data8(Bytes(w)[3]), Data8(Bytes(w)[4]) >>,
      << Data16(Halves(w)[1]), Data16(Halves(w)[2]) >>,
      << Data32(w) >>,
      << Data32(w), Data32(U32(\hAD91, \hFE38)) >>,
      << Data8(Bytes(w)[4]), Data32(w), Data16(Halves(w)[2]) >> }

Range(f) == { f[i] : i \in DOMAIN f }

SampleConfigs ==
    [ reflect_input  : Range(BitReversal),
      reflect_output : BOOLEAN,
      initial_value  : Range(INITIAL_VALUES),
      polynomial     : Range(POLYNOMIALS) ]

SampleCalculations ==
    [ config : SampleConfigs,
      steps  : UNION { SampleSteps(w) : w \in SampleWords } ]

\* state at entry of crc_test(serial, crc, &calculation, &name)
InitTest ==
    /\ pc = "software"
    /\ calculation \in SampleCalculations
    /\ name = NameOf(calculation, 0)
    /\ idx = <<1, 1, 1, 1, 1>>
    /\ passed = 0
    /\ failed = 0
    /\ expected_output = U32(0, 0)
    /\ digested = << >>
    /\ ops = << >>
    /\ output = U32(0, 0)
    /\ pass = FALSE
    /\ serial = [lines |-> 0, last |-> [kind |-> "none"]]
    /\ arg = U32(0, 0)
    /\ fpoly = Crc8(0)
    /\ res = << >>

NextTest ==
    \/ RunSoftware
    \/ HwWriteInit
    \/ HwWritePol
    \/ HwWriteCr
    \/ HwWriteData
    \/ HwReadDr
    \/ Report

\* one call of crc_test
SpecTest == InitTest /\ [][NextTest]_vars

(***************************************************************************)
(* The bit-reflection functions and the Polynomial accessors on their own  *)
(***************************************************************************)
\* every value up to SmallMax is an argument; so are words built from SampleHalves
SmallMax == 255

SampleHalves == { \h0000, \h0001, \h00FF, \h4232, \h8000, \hAABB, \hCCDD, \hFFFF }

SampleArgs ==
    { AsU32(n) : n \in 0 .. SmallMax } \cup { U32(h, l) : h, l \in SampleHalves }

\* the polynomials of the test matrix and the extreme payload of every variant
SamplePolynomials ==
    Range(POLYNOMIALS) \cup
    { Crc7(\h7F), Crc7(\h80), Crc7(\hFF), Crc8(\hFF), Crc16(\hFFFF),
      Crc32(U32(\hFFFF, \hFFFF)) }

InitFn ==
    /\ pc = "arg"
    /\ arg \in SampleArgs
    /\ fpoly \in SamplePolynomials
    /\ res = << >>
    /\ idx = <<1, 1, 1, 1, 1>>
    /\ passed = 0
    /\ failed = 0
    /\ calculation = NoCalculation
    /\ name = NameOf(NoCalculation, 0)
    /\ expected_output = U32(0, 0)
    /\ digested = << >>
    /\ ops = << >>
    /\ output = U32(0, 0)
    /\ pass = FALSE
    /\ serial = [lines |-> 0, last |-> [kind |-> "none"]]

\* reflect8(arg), reflect16(arg), reflect32(arg)
ApplyReflect ==
    /\ pc = "arg"
    /\ res' = [r8 |-> reflect8[arg], r16 |-> reflect16[arg], r32 |-> reflect32[arg]]
    /\ pc' = "reflected"
    /\ UNCHANGED <<arg, fpoly, runnerVars, testVars>>

\* each function applied to its own result
ApplyReflectAgain ==
    /\ pc = "reflected"
    /\ res' = [r8 |-> reflect8[res.r8], r16 |-> reflect16[res.r16],
               r32 |-> reflect32[res.r32]]
    /\ pc' = "reflected_twice"
    /\ UNCHANGED <<arg, fpoly, runnerVars, testVars>>

\* fpoly.reflect_output(arg)
ApplyReflectOutput ==
    /\ pc = "arg"
    /\ res' = [out |-> reflect_output(fpoly, arg)]
    /\ pc' = "output"
    /\ UNCHANGED <<arg, fpoly, runnerVars, testVars>>

\* fpoly.reflect_output applied to its own result
ApplyReflectOutputAgain ==
    /\ pc = "output"
    /\ res' = [out |-> reflect_output(fpoly, res.out)]
    /\ pc' = "output_twice"
    /\ UNCHANGED <<arg, fpoly, runnerVars, testVars>>

\* fpoly.bits(), fpoly.value(), fpoly.poly_size()
ApplyAccessors ==
    /\ pc = "arg"
    /\ res' = [bits |-> bits(fpoly), value |-> value(fpoly), poly_size |-> poly_size(fpoly)]
    /\ pc' = "described"
    /\ UNCHANGED <<arg, fpoly, runnerVars, testVars>>

NextFn ==
    \/ ApplyReflect
    \/ ApplyReflectAgain
    \/ ApplyReflectOutput
    \/ ApplyReflectOutputAgain
    \/ ApplyAccessors

\* the pure functions of crc.rs applied to sampled arguments
SpecFn == InitFn /\ [][NextFn]_vars

(***************************************************************************)
(* Properties                                                              *)
(***************************************************************************)
\* bit i (0 = least significant) of a u32
Bit(v, i) == IF i < 16 THEN (v[2] \div 2^i) % 2 ELSE (v[1] \div 2^(i - 16)) % 2

\* v has no bit set at position w or above
InWidth(v, w) == \A i \in 0 .. 31 : i >= w => Bit(v, i) = 0

\* r is v with the bit order reversed inside every aligned group of g bits
ReversedInGroups(r, v, g) ==
    \A i \in 0 .. 31 : Bit(r, i) = Bit(v, g * (i \div g) + (g - 1) - (i % g))

\* r is the low w bits of v in reversed order, and nothing above them
ReversedInWidth(r, v, w) ==
    \A i \in 0 .. 31 : Bit(r, i) = IF i < w THEN Bit(v, (w - 1) - i) ELSE 0

\* C4: reflect8 reverses the bits inside each byte, reflect16 inside each halfword,
\* reflect32 over the whole word, and each of them applied twice gives back its
\* argument, for every 32-bit argument.
C4_ReflectInvolution ==
    /\ pc = "reflected" =>
          /\ ReversedInGroups(res.r8, arg, 8)
          /\ ReversedInGroups(res.r16, arg, 16)
          /\ ReversedInGroups(res.r32, arg, 32)
    /\ pc = "reflected_twice" =>
          /\ res.r8 = arg
          /\ res.r16 = arg
          /\ res.r32 = arg

C4_Witness ==
    /\ pc = "reflected_twice"
    /\ arg = U32(\hAABB, \h4232)
    /\ res.r32 = arg

\* C3: for a register value that fits in the polynomial's width, reflect_output
\* returns the bit reversal of the value within that width (7 bits for Crc7, by
\* way of the 8-bit reflection shifted right once), and the result fits the width.
C3_ReflectOutputAtWidth ==
    (pc = "output" /\ InWidth(arg, bits(fpoly))) =>
        /\ ReversedInWidth(res.out, arg, bits(fpoly))
        /\ InWidth(res.out, bits(fpoly))
        /\ fpoly.tag = "Crc7" => res.out = Shr[reflect8[arg], 1]

C3_Witness ==
    /\ pc = "output"
    /\ fpoly.tag = "Crc7"
    /\ arg = AsU32(\h13)
    /\ res.out = AsU32(\h64)

\* a bit 7 of some byte of v is set
HasByteTopBit(v) == \E k \in {7, 15, 23, 31} : Bit(v, k) = 1

C6_EveryPolynomialFits ==
    pc = "described" => InWidth(res.value, res.bits)

\* C6 amended: value() is below 2^bits() for every Crc8, Crc16 and Crc32 payload
\* and for every entry of POLYNOMIALS; a Crc7 payload fits exactly when it is
\* below 0x80, which the u8 it is stored in does not ensure.
C6_PolynomialFits ==
    pc = "described" =>
        /\ (fpoly.tag # "Crc7" \/ fpoly \in Range(POLYNOMIALS)) =>
               InWidth(res.value, res.bits)
        /\ fpoly.tag = "Crc7" => (InWidth(res.value, res.bits) <=> fpoly.v8 < 128)

C6_Witness ==
    /\ pc = "described"
    /\ fpoly = Crc16(\hFFFF)
    /\ res.bits = 16
    /\ InWidth(res.value, res.bits)

\* run_software has returned for the calculation under test
SoftwareDone == pc \in {"hw_init", "hw_pol", "hw_cr", "hw_data", "row", "count"}

\* a word fed as two halfword steps and as four byte steps, high end first
Split16(w) == << Data16(w[1]), Data16(w[2]) >>
Split8(w)  ==
    << Data8(w[1] \div 256), Data8(w[1] % 256), Data8(w[2] \div 256), Data8(w[2] % 256) >>

\* run_software on the calculation under test with other steps
SoftwareOn(ss) == run_software([calculation EXCEPT !.steps = ss])

OneWordStep == Len(calculation.steps) = 1 /\ calculation.steps[1].tag = "Data32"

\* C1 as stated: under every configuration one Data32 step, its two Data16 halves
\* and its four Data8 bytes give the same software result.
C1_SplitAnyMode ==
    (SoftwareDone /\ OneWordStep) =>
        /\ expected_output = SoftwareOn(Split16(calculation.steps[1].v32))
        /\ expected_output = SoftwareOn(Split8(calculation.steps[1].v32))

\* C1 amended: the three feedings agree when input reflection is Disabled or
\* By8Bits; under By16Bits the Data32 step and its two Data16 halves agree.
C1_SplitByteModes ==
    (SoftwareDone /\ OneWordStep) =>
        /\ calculation.config.reflect_input \in {"Disabled", "By8Bits", "By16Bits"} =>
               expected_output = SoftwareOn(Split16(calculation.steps[1].v32))
        /\ calculation.config.reflect_input \in {"Disabled", "By8Bits"} =>
               expected_output = SoftwareOn(Split8(calculation.steps[1].v32))

C1_Witness ==
    /\ pc = "hw_init"
    /\ calculation.steps = << Data32(U32(\hAABB, \hCCDD)) >>
    /\ calculation.config.reflect_input = "By16Bits"
    /\ calculation.config.polynomial.tag = "Crc16"
    /\ expected_output = SoftwareOn(<< Data16(\hAABB), Data16(\hCCDD) >>)
    /\ expected_output # SoftwareOn(<< Data8(\hAA), Data8(\hBB), Data8(\hCC), Data8(\hDD) >>)

\* the low w bits of v
Truncated(v, w) ==
    IF w >= 32 THEN v
    ELSE IF w >= 16 THEN U32(v[1] % 2^(w - 16), v[2])
    ELSE U32(0, v[2] % 2^w)

NoSteps == calculation.steps = << >>

\* C2 as stated: with no steps the result is the initial value, or
\* reflect_output of the initial value when output reflection is on.
C2_EmptyGivesInitialValue ==
    (SoftwareDone /\ NoSteps) =>
        expected_output =
            IF calculation.config.reflect_output
            THEN reflect_output(calculation.config.polynomial,
                                calculation.config.initial_value)
            ELSE calculation.config.initial_value

\* C2 amended: with no steps nothing is digested and the result is the initial
\* value cut to the polynomial's width, or reflect_output of that when output
\* reflection is on, whatever the input-reflection mode.
C2_EmptyGivesTruncatedInitialValue ==
    (SoftwareDone /\ NoSteps) =>
        /\ digested = << >>
        /\ expected_output =
              IF calculation.config.reflect_output
              THEN reflect_output(calculation.config.polynomial,
                                  Truncated(calculation.config.initial_value,
                                            bits(calculation.config.polynomial)))
              ELSE Truncated(calculation.config.initial_value,
                             bits(calculation.config.polynomial))

C2_Witness ==
    /\ pc = "hw_init"
    /\ NoSteps
    /\ calculation.config.polynomial = Crc8(\h07)
    /\ calculation.config.initial_value = U32(\hFFFF, \hFFFF)
    /\ calculation.config.reflect_input = "By32Bits"
    /\ ~calculation.config.reflect_output
    /\ expected_output = U32(0, \h00FF)

\* the register accesses run_hardware is to make before the final read
ExpectedWrites(c) ==
    << [op |-> "write", reg |-> "INIT", bits32 |-> c.config.initial_value],
       [op |-> "write", reg |-> "POL", bits32 |-> value(c.config.polynomial)],
       [op |-> "write", reg |-> "CR",
        fields |-> [rev_in   |-> CASE c.config.reflect_input = "Disabled" -> "NORMAL"
                                   [] c.config.reflect_input = "By8Bits"  -> "BYTE"
                                   [] c.config.reflect_input = "By16Bits" -> "HALFWORD"
                                   [] c.config.reflect_input = "By32Bits" -> "WORD",
                    rev_out  |-> IF c.config.reflect_output THEN "REVERSED" ELSE "NORMAL",
                    polysize |-> CASE c.config.polynomial.tag = "Crc7"  -> "POLYSIZE7"
                                   [] c.config.polynomial.tag = "Crc8"  -> "POLYSIZE8"
                                   [] c.config.polynomial.tag = "Crc16" -> "POLYSIZE16"
                                   [] c.config.polynomial.tag = "Crc32" -> "POLYSIZE32",
                    reset    |-> TRUE]] >>
    \o [ j \in 1 .. Len(c.steps) |->
           CASE c.steps[j].tag = "Data8"  ->
                  [op |-> "write", reg |-> "DR8", bits8 |-> c.steps[j].v8]
             [] c.steps[j].tag = "Data16" ->
                  [op |-> "write", reg |-> "DR16", bits16 |-> c.steps[j].v16]
             [] c.steps[j].tag = "Data32" ->
                  [op |-> "write", reg |-> "DR", bits32 |-> c.steps[j].v32] ]

\* C9: run_hardware writes INIT, then POL, then CR once (input reflection, output
\* reflection, polynomial size and reset together), then each step's raw value to
\* the data port of the step's width in step order, then reads DR once; nothing is
\* fed before the CR write, and nothing at all for an empty step sequence.
C9_RegisterOrder ==
    LET want == ExpectedWrites(calculation)
    IN  /\ Len(ops) <= Len(want) + 1
        /\ \A j \in 1 .. Len(ops) :
              IF j <= Len(want)
              THEN ops[j] = want[j]
              ELSE ops[j] = [op |-> "read", reg |-> "DR", bits32 |-> output]
        /\ pc = "hw_pol" => Len(ops) = 1
        /\ pc = "hw_cr" => Len(ops) = 2
        /\ pc = "hw_data" => Len(ops) >= 3
        /\ pc \in {"row", "count"} => Len(ops) = Len(want) + 1

C9_Witness ==
    /\ pc = "row"
    /\ Len(calculation.steps) = 3
    /\ calculation.steps[1].tag = "Data8"
    /\ calculation.steps[2].tag = "Data32"
    /\ calculation.steps[3].tag = "Data16"
    /\ calculation.config.reflect_input = "By16Bits"
    /\ Len(ops) = 7
    /\ ops[4].reg = "DR8" /\ ops[5].reg = "DR" /\ ops[6].reg = "DR16"
    /\ ops[7].op = "read"

\* a byte with its bit order reversed
Rev8(b) ==
    LET RECURSIVE sum(_)
        sum(i) == IF i = 8 THEN 0 ELSE ((b \div 2^i) % 2) * 2^(7 - i) + sum(i + 1)
    IN  sum(0)

\* the bytes a step is to contribute under an input-reflection mode, from the
\* step's own bytes b (most significant first)
ReflectedBytes(mode, step) ==
    LET b == CASE step.tag = "Data8"  -> << step.v8 >>
               [] step.tag = "Data16" -> << step.v16 \div 256, step.v16 % 256 >>
               [] step.tag = "Data32" -> << step.v32[1] \div 256, step.v32[1] % 256,
                                            step.v32[2] \div 256, step.v32[2] % 256 >>
        r == [j \in 1 .. Len(b) |-> Rev8(b[j])]
    IN  CASE mode = "Disabled" -> b
          [] mode = "By8Bits"  -> r
          [] mode = "By16Bits" ->
               IF Len(b) = 4 THEN << r[2], r[1], r[4], r[3] >>
               ELSE [j \in 1 .. Len(b) |-> r[Len(b) + 1 - j]]
          [] mode = "By32Bits" -> [j \in 1 .. Len(b) |-> r[Len(b) + 1 - j]]

RECURSIVE ReflectedStream(_, _)
ReflectedStream(mode, ss) ==
    IF ss = << >> THEN << >>
    ELSE ReflectedBytes(mode, Head(ss)) \o ReflectedStream(mode, Tail(ss))

\* C10: the bytes run_software digests are fixed by the input-reflection mode and
\* each step's own width: unchanged when Disabled; bits reversed inside each byte
\* under By8Bits; under By16Bits a Data16 fully reversed, each half of a Data32
\* reversed in place, a Data8 reversed; under By32Bits every step fully reversed at
\* its own width; steps in order, bytes most significant first; and the result is
\* the CRC of exactly those bytes.
C10_InputReflection ==
    SoftwareDone =>
        /\ digested = ReflectedStream(calculation.config.reflect_input, calculation.steps)
        /\ LET raw == get_crc(digest(create_crc(value(calculation.config.polynomial),
                                                bits(calculation.config.polynomial),
                                                calculation.config.initial_value,
                                                U32(0, 0)),
                                     digested))
           IN  expected_output =
                   IF calculation.config.reflect_output
                   THEN reflect_output(calculation.config.polynomial, raw)
                   ELSE raw

C10_Witness ==
    /\ pc = "hw_init"
    /\ calculation.config.reflect_input = "By16Bits"
    /\ calculation.config.polynomial.tag = "Crc7"
    /\ calculation.steps = << Data32(U32(\hAABB, \hCCDD)) >>
    /\ digested = << \hDD, \h55, \hBB, \h33 >>

\* number of cases in the matrix: 5 * 4 * 2 * 3 * 7
MatrixSize ==
    Len(POLYNOMIALS) * Len(BitReversal) * Len(OutputReflections)
        * Len(INITIAL_VALUES) * Len(steps)

\* report rows written so far: every line but the header and the summary
RowsWritten ==
    IF serial.lines = 0 THEN 0
    ELSE IF pc = "done" THEN serial.lines - 2
    ELSE serial.lines - 1

\* cases whose outcome has been counted
CasesCounted == IF pc = "count" THEN RowsWritten - 1 ELSE RowsWritten

\* the counters after every step, and the summary at the end
C7_CountersState ==
    /\ passed + failed = CasesCounted
    /\ pc = "done" =>
          /\ passed + failed = 840
          /\ MatrixSize = 840
          /\ serial.last.kind = "summary"
          /\ serial.last.passed = passed
          /\ serial.last.failed = failed
          /\ serial.last.passed + serial.last.failed = 840
          /\ serial.last.result = "ok" <=> failed = 0
          /\ serial.last.result \in {"ok", "FAILED"}

\* one step changes the counters only by counting one case: passed when the
\* hardware output equals the software output, failed otherwise
C7_CountersStep ==
    \/ UNCHANGED <<passed, failed>>
    \/ /\ pc = "count"
       /\ output = expected_output
       /\ passed' = passed + 1
       /\ failed' = failed
    \/ /\ pc = "count"
       /\ output # expected_output
       /\ failed' = failed + 1
       /\ passed' = passed

\* C7: run_tests runs 5 x 4 x 2 x 3 x 7 = 840 cases; passed + failed is always the
\* number of cases completed; a case adds one to passed iff the hardware and
\* software results are equal and one to failed otherwise; the summary says "ok"
\* iff failed = 0 and its counts add up to 840.
C7_Counters == []C7_CountersState /\ [][C7_CountersStep]_vars

C7_Witness ==
    /\ pc = "done"
    /\ serial.last.kind = "summary"
    /\ serial.last.result = "FAILED"
    /\ serial.last.failed = 2
    /\ serial.last.passed = 838

\* the n-th case (from 0) of the matrix in nested order: polynomial outermost,
\* then input reflection, output reflection, initial value, steps innermost
LexCase(n) ==
    [config |-> [reflect_input  |-> BitReversal[((n \div 42) % 4) + 1],
                 reflect_output |-> ((n \div 21) % 2 = 1),
                 initial_value  |-> INITIAL_VALUES[((n \div 7) % 3) + 1],
                 polynomial     |-> POLYNOMIALS[(n \div 168) + 1]],
     steps  |-> steps[(n % 7) + 1]]

\* every case is run in nested order whatever the earlier outcomes were, and its
\* row is out before the next case is built
C8_OrderState ==
    /\ pc \in {"software", "hw_init", "hw_pol", "hw_cr", "hw_data", "row"} =>
          /\ RowsWritten < 840
          /\ calculation = LexCase(RowsWritten)
          /\ name = NameOf(LexCase(RowsWritten), RowsWritten % 7)
    /\ serial.last.kind = "row" =>
          serial.last.name = NameOf(LexCase(RowsWritten - 1), (RowsWritten - 1) % 7)
    /\ pc = "count" =>
          /\ serial.last.kind = "row"
          /\ serial.last.name = name
          /\ serial.last.output = output
          /\ serial.last.result.text = "OK" <=> output = expected_output
          /\ serial.last.result.text # "OK" =>
                serial.last.result = [text |-> "failed - expected",
                                      value |-> expected_output]
    /\ pc = "done" => serial.lines = 842

\* a step writes at most one line, and a mismatch moves nothing but `failed`
C8_OrderStep ==
    /\ serial'.lines \in {serial.lines, serial.lines + 1}
    /\ failed' # failed => (passed' = passed /\ idx' = Advance(idx) /\ pc' = "loop")
    /\ passed' # passed => (failed' = failed /\ idx' = Advance(idx) /\ pc' = "loop")

\* C8: a mismatch never stops the run: whatever cases mismatch, every case of the
\* matrix is still run in nested order, each row is written before the next case
\* starts, the summary line is eventually written, and a mismatch changes only
\* the failed counter and the text of its own row.
C8_MismatchNeverAborts ==
    /\ []C8_OrderState
    /\ [][C8_OrderStep]_vars
    /\ <>(pc = "done" /\ serial.last.kind = "summary" /\ serial.lines = 842)

C8_Witness ==
    /\ pc = "done"
    /\ serial.lines = 842
    /\ serial.last.kind = "summary"
    /\ failed = 1
    /\ passed = 839

====
